---- MODULE Spec2Model ----
(***************************************************************************)
(* Model of csv2txt (src/csv2txt/csv2txt.py): the CSV2TXT dataclass, its   *)
(* cell wrapper, aligner and table generator, and the command-line entry.  *)
(*                                                                         *)
(* A Python str is a sequence of one-character strings.  An Optional value *)
(* is None (the empty tuple) or Some(x) (a one-element tuple).  An Enum    *)
(* member and a plain str are records [cls, value], so that the str 'top'  *)
(* and VAlign.TOP are different values, as they are in Python.             *)
(***************************************************************************)
EXTENDS Integers, Sequences, FiniteSets, TLC

VARIABLES app, op, pc, input, output

vars == <<app, op, pc, input, output>>

(***************************************************************************)
(* Bounds of the explored inputs.                                          *)
(***************************************************************************)
MaxLen == 4

MaxWidth == 3

MaxRows == 2

MaxCells == 4

MaxSpacing == 1

MaxTitle == 4

GenWidth == 2

(***************************************************************************)
(* Values.                                                                 *)
(***************************************************************************)
None == <<>>

Some(x) == <<x>>

Val(o) == o[1]

BSL == "\\"

LF == "LF"

SP == " "

Enum(cls, value) == [cls |-> cls, value |-> value]

Str(value) == [cls |-> "str", value |-> value]

Align == {Enum("Align", "left"), Enum("Align", "right"), Enum("Align", "center")}

LEFT == Enum("Align", "left")

RIGHT == Enum("Align", "right")

CENTER == Enum("Align", "center")

VAlign == {Enum("VAlign", "top"), Enum("VAlign", "middle"), Enum("VAlign", "bottom")}

TOP == Enum("VAlign", "top")

MIDDLE == Enum("VAlign", "middle")

BOTTOM == Enum("VAlign", "bottom")

separator == ","

(***************************************************************************)
(* Results: a returned value, or the exception that left the call.         *)
(***************************************************************************)
Return(v) == [exc |-> "none", ret |-> v]

Raise(e) == [exc |-> e, ret |-> <<>>]

(***************************************************************************)
(* Sequence helpers (str methods).                                         *)
(***************************************************************************)
Rep(c, n) == [i \in 1..(IF n > 0 THEN n ELSE 0) |-> c]

RECURSIVE Concat(_)
Concat(ss) == IF ss = <<>> THEN <<>> ELSE Head(ss) \o Concat(Tail(ss))

RECURSIVE JoinWith(_, _)
JoinWith(sep, ss) ==
    IF ss = <<>> THEN <<>>
    ELSE IF Len(ss) = 1 THEN Head(ss)
    ELSE Head(ss) \o sep \o JoinWith(sep, Tail(ss))

RECURSIVE SumSeq(_)
SumSeq(ns) == IF ns = <<>> THEN 0 ELSE Head(ns) + SumSeq(Tail(ns))

RECURSIVE MaxSeq(_)
MaxSeq(ns) ==
    IF Len(ns) = 1 THEN Head(ns)
    ELSE LET m == MaxSeq(Tail(ns)) IN IF Head(ns) > m THEN Head(ns) ELSE m

RECURSIVE Replace2(_, _, _, _)
Replace2(s, c1, c2, r) ==
    IF Len(s) < 2 THEN s
    ELSE IF s[1] = c1 /\ s[2] = c2 THEN <<r>> \o Replace2(Tail(Tail(s)), c1, c2, r)
    ELSE <<s[1]>> \o Replace2(Tail(s), c1, c2, r)

RECURSIVE SplitAcc(_, _)
SplitAcc(rest, cur) ==
    IF rest = <<>> THEN (IF cur = <<>> THEN <<>> ELSE <<cur>>)
    ELSE IF Head(rest) = LF THEN <<cur>> \o SplitAcc(Tail(rest), <<>>)
    ELSE SplitAcc(Tail(rest), Append(cur, Head(rest)))

splitlines(s) == SplitAcc(s, <<>>)

(***************************************************************************)
(* CSV2TXT.escape                                                          *)
(***************************************************************************)
escape(text) == Replace2(Replace2(text, BSL, "n", LF), BSL, separator, separator)

(***************************************************************************)
(* textwrap.wrap(line, width) with the default TextWrapper options, on     *)
(* text without tabs and hyphens.                                          *)
(***************************************************************************)
IsSpace(c) == c \in {SP, LF}

MungeWhitespace(s) == [i \in DOMAIN s |-> IF IsSpace(s[i]) THEN SP ELSE s[i]]

RECURSIVE ChunkAcc(_, _)
ChunkAcc(rest, cur) ==
    IF rest = <<>> THEN (IF cur = <<>> THEN <<>> ELSE <<cur>>)
    ELSE IF cur = <<>> \/ (Head(rest) = SP) = (cur[1] = SP)
         THEN ChunkAcc(Tail(rest), Append(cur, Head(rest)))
    ELSE <<cur>> \o ChunkAcc(Tail(rest), <<Head(rest)>>)

SplitChunks(s) == ChunkAcc(s, <<>>)

IsBlank(chunk) == \A i \in DOMAIN chunk : chunk[i] = SP

RECURSIVE Fit(_, _)
Fit(chunks, room) ==
    IF chunks = <<>> \/ Len(Head(chunks)) > room THEN 0
    ELSE 1 + Fit(Tail(chunks), room - Len(Head(chunks)))

RECURSIVE WrapChunks(_, _, _)
WrapChunks(chunks, width, lines) ==
    IF chunks = <<>> THEN lines
    ELSE LET c1 == IF IsBlank(Head(chunks)) /\ lines # <<>> THEN Tail(chunks) ELSE chunks
             n == Fit(c1, width)
             taken == SubSeq(c1, 1, n)
             rest0 == SubSeq(c1, n + 1, Len(c1))
             cur_len == Len(Concat(taken))
             long == rest0 # <<>> /\ Len(Head(rest0)) > width
             space_left == width - cur_len
             cur1 == IF long THEN Append(taken, SubSeq(Head(rest0), 1, space_left))
                     ELSE taken
             rest1 == IF long
                      THEN <<SubSeq(Head(rest0), space_left + 1, Len(Head(rest0)))>>
                           \o Tail(rest0)
                      ELSE rest0
             cur2 == IF cur1 # <<>> /\ IsBlank(cur1[Len(cur1)])
                     THEN SubSeq(cur1, 1, Len(cur1) - 1)
                     ELSE cur1
         IN WrapChunks(rest1, width, IF cur2 # <<>> THEN Append(lines, Concat(cur2)) ELSE lines)

wrap_unstripped(line, width) ==
    IF width <= 0 THEN Raise("ValueError")
    ELSE IF Len(line) <= width THEN Return(IF line = <<>> THEN <<>> ELSE <<line>>)
    ELSE Return(WrapChunks(SplitChunks(MungeWhitespace(line)), width, <<>>))

wrap(line, width) ==
    IF width <= 0 THEN Raise("ValueError")
    ELSE Return(WrapChunks(SplitChunks(MungeWhitespace(line)), width, <<>>))

(***************************************************************************)
(* CSV2TXT.wrap_cell                                                       *)
(***************************************************************************)
RECURSIVE WrapLines(_, _, _)
WrapLines(self, lines, wrapped) ==
    IF lines = <<>> THEN Return(wrapped)
    ELSE IF self.max_width # None /\ Val(self.max_width) # 0
         THEN LET w == wrap(Head(lines), Val(self.max_width))
              IN IF w.exc # "none" THEN w
                 ELSE WrapLines(self, Tail(lines), wrapped \o w.ret)
    ELSE WrapLines(self, Tail(lines), Append(wrapped, Head(lines)))

wrap_cell(self, text) ==
    IF text = None THEN Return(<<<<>>>>)
    ELSE LET lines == splitlines(escape(Val(text)))
             r == WrapLines(self, IF lines = <<>> THEN <<<<>>>> ELSE lines, <<>>)
         IN IF r.exc # "none" THEN r
            ELSE IF r.ret = <<>> THEN Return(<<<<>>>>) ELSE r

(***************************************************************************)
(* The dataclass and its __post_init__.                                    *)
(***************************************************************************)
CSV2TXT(spacing, max_width, align, valign, title_align) ==
    [spacing |-> IF spacing > 0 THEN spacing ELSE 0,
     max_width |-> max_width,
     align |-> align,
     valign |-> valign,
     title_align |-> title_align]

Default == CSV2TXT(1, None, None, MIDDLE, CENTER)

(***************************************************************************)
(* CSV2TXT.align_text and CSV2TXT.align_cell.  A match statement that      *)
(* matches no case falls through and the method returns None.              *)
(***************************************************************************)
ljust(text, width) == text \o Rep(SP, width - Len(text))

rjust(text, width) == Rep(SP, width - Len(text)) \o text

center_extra_right(text, width) ==
    LET marg == width - Len(text)
        left == marg \div 2
    IN IF marg <= 0 THEN text
       ELSE Rep(SP, left) \o text \o Rep(SP, marg - left)

center(text, width) ==
    LET marg == width - Len(text)
        left == (marg \div 2) + (IF marg % 2 = 1 /\ width % 2 = 1 THEN 1 ELSE 0)
    IN IF marg <= 0 THEN text
       ELSE Rep(SP, left) \o text \o Rep(SP, marg - left)

align_text(text, width, align) ==
    CASE align = LEFT -> Some(ljust(text, width))
      [] align = RIGHT -> Some(rjust(text, width))
      [] align = CENTER -> Some(center(text, width))
      [] OTHER -> None

align_cell(self, text, width, column) ==
    align_text(text, width,
               IF self.align # None /\ column < Len(Val(self.align))
               THEN Val(self.align)[column + 1]
               ELSE LEFT)

(***************************************************************************)
(* CSV2TXT.get_rows: csv.reader(lines, delimiter = separator,              *)
(* skipinitialspace = True) on records without quote characters.  A line   *)
(* is given without its line terminator, which the reader drops.           *)
(***************************************************************************)
COM == "__COMMA__"

RECURSIVE FieldsAcc(_, _, _)
FieldsAcc(rest, cur, started) ==
    IF rest = <<>> THEN <<cur>>
    ELSE IF Head(rest) = separator THEN <<cur>> \o FieldsAcc(Tail(rest), <<>>, FALSE)
    ELSE IF Head(rest) = SP /\ ~started THEN FieldsAcc(Tail(rest), cur, FALSE)
    ELSE FieldsAcc(Tail(rest), Append(cur, Head(rest)), TRUE)

reader(line) == IF line = <<>> THEN <<>> ELSE FieldsAcc(line, <<>>, FALSE)

get_rows(lines) ==
    [i \in DOMAIN lines |->
        LET row == reader(Replace2(lines[i], BSL, separator, COM))
        IN [c \in DOMAIN row |->
               [k \in DOMAIN row[c] |-> IF row[c][k] = COM THEN separator ELSE row[c][k]]]]

(***************************************************************************)
(* CSV2TXT.generate                                                        *)
(***************************************************************************)
border_symbols == <<"H", "V", "TL", "TM", "TR", "ML", "MM", "MR", "BL", "BM", "BR">>

H == border_symbols[1]

V == border_symbols[2]

TL == border_symbols[3]

TM == border_symbols[4]

TR == border_symbols[5]

ML == border_symbols[6]

MM == border_symbols[7]

MR == border_symbols[8]

BL == border_symbols[9]

BM == border_symbols[10]

BR == border_symbols[11]

wrap_cells(self, rows) ==
    [r \in DOMAIN rows |-> [c \in DOMAIN rows[r] |-> wrap_cell(self, Some(rows[r][c]))]]

count_cols(rows) == MaxSeq([r \in DOMAIN rows |-> Len(rows[r])])

pad_cells(wrapped, cols) ==
    [r \in DOMAIN wrapped |->
        [c \in DOMAIN wrapped[r] |-> wrapped[r][c].ret]
        \o Rep(<<<<>>>>, cols - Len(wrapped[r]))]

cols_width_first_row(cells, cols) ==
    [col \in 1..cols |-> MaxSeq([l \in DOMAIN cells[1][col] |-> Len(cells[1][col][l])])]

cols_width(cells, cols) ==
    [col \in 1..cols |->
        MaxSeq(Concat([r \in DOMAIN cells |->
                          [l \in DOMAIN cells[r][col] |-> Len(cells[r][col][l])]]))]

spaced_cols(self, widths) == [c \in DOMAIN widths |-> widths[c] + self.spacing * 2]

total_width(spaced) == SumSeq(spaced) + (Len(spaced) - 1)

make_separator_unjoined(spaced, left, mid, right) ==
    <<left>> \o Concat([c \in DOMAIN spaced |-> Rep(H, spaced[c])]) \o <<right>>

make_separator(spaced, left, mid, right) ==
    <<left>> \o JoinWith(<<mid>>, [c \in DOMAIN spaced |-> Rep(H, spaced[c])]) \o <<right>>

title_block(self, title, spaced) ==
    LET title_text == align_text(<<SP>> \o title \o <<SP>>, total_width(spaced), self.title_align)
    IN IF title_text = None THEN Raise("TypeError")
       ELSE Return(<<<<TL>> \o Rep(H, total_width(spaced)) \o <<TR>>,
                     <<V>> \o Val(title_text) \o <<V>>,
                     make_separator(spaced, ML, TM, MR)>>)

spaced_cell_extra_above(self, col, max_height) ==
    LET delta == max_height - Len(col)
        bottom_space == delta \div 2
        top_space == delta - bottom_space
    IN IF self.valign = TOP THEN col \o Rep(<<>>, delta)
       ELSE IF self.valign = BOTTOM THEN Rep(<<>>, delta) \o col
       ELSE Rep(<<>>, top_space) \o col \o Rep(<<>>, bottom_space)

spaced_cell(self, col, max_height) ==
    LET delta == max_height - Len(col)
        top_space == delta \div 2
        bottom_space == delta - top_space
    IN IF self.valign = TOP THEN col \o Rep(<<>>, delta)
       ELSE IF self.valign = BOTTOM THEN Rep(<<>>, delta) \o col
       ELSE Rep(<<>>, top_space) \o col \o Rep(<<>>, bottom_space)

row_height(row) == MaxSeq([c \in DOMAIN row |-> Len(row[c])])

row_content(self, row, widths, max_height) ==
    [line \in 1..max_height |->
        [ci \in DOMAIN row |->
            align_cell(self, spaced_cell(self, row[ci], max_height)[line], widths[ci], ci - 1)]]

row_text(self, content) ==
    IF \E line \in DOMAIN content : \E ci \in DOMAIN content[line] : content[line][ci] = None
    THEN Raise("TypeError")
    ELSE Return([line \in DOMAIN content |->
                    <<V>> \o JoinWith(<<V>>,
                        [ci \in DOMAIN content[line] |->
                            Rep(SP, self.spacing) \o Val(content[line][ci])
                            \o Rep(SP, self.spacing)])
                    \o <<V>>])

row_lines(self, row, widths) ==
    IF row = <<>> THEN Raise("ValueError")
    ELSE row_text(self, row_content(self, row, widths, row_height(row)))

rows_joined(done, middle) ==
    IF \E ri \in DOMAIN done : done[ri].exc # "none"
    THEN done[CHOOSE ri \in DOMAIN done :
                 /\ done[ri].exc # "none"
                 /\ \A rj \in 1..(ri - 1) : done[rj].exc = "none"]
    ELSE Return(Concat([ri \in DOMAIN done |->
                           done[ri].ret \o (IF ri < Len(done) THEN <<middle>> ELSE <<>>)]))

body_lines(self, cells, widths, middle) ==
    rows_joined([ri \in DOMAIN cells |-> row_lines(self, cells[ri], widths)], middle)

table_head(self, title, spaced) ==
    IF title = None \/ Val(title) = <<>>
    THEN Return(<<make_separator(spaced, TL, TM, TR)>>)
    ELSE title_block(self, Val(title), spaced)

table_lines(head, body, bottom) ==
    IF head.exc # "none" THEN head
    ELSE IF body.exc # "none" THEN body
    ELSE Return(JoinWith(<<LF>>, head.ret \o body.ret \o <<bottom>>))

generate(self, lines, title) ==
    LET drawn(cells, widths, spaced) ==
            table_lines(table_head(self, title, spaced),
                        body_lines(self, cells, widths, make_separator(spaced, ML, MM, MR)),
                        make_separator(spaced, BL, BM, BR))
        sized(cells, widths) == drawn(cells, widths, spaced_cols(self, widths))
        padded(cells, cols) == sized(cells, cols_width(cells, cols))
        wrapped(rows, cells) ==
            IF \E r \in DOMAIN rows : \E c \in DOMAIN rows[r] : cells[r][c].exc # "none"
            THEN Raise("ValueError")
            ELSE padded(pad_cells(cells, count_cols(rows)), count_cols(rows))
        parsed(rows) == IF rows = <<>> THEN Return(<<>>)
                        ELSE wrapped(rows, wrap_cells(self, rows))
    IN parsed(get_rows(lines))

NoCall == [none |-> TRUE]

(***************************************************************************)
(* CSV2TXT(max_width = mw).wrap_cell(text)                                 *)
(***************************************************************************)
Chars == {"a", SP, BSL, "n", separator, LF}

RECURSIVE TextsOfLen(_)
TextsOfLen(n) ==
    IF n = 0 THEN {<<>>}
    ELSE {Append(t, c) : t \in TextsOfLen(n - 1), c \in Chars}

Texts == UNION {TextsOfLen(n) : n \in 0..MaxLen}

Widths == {None} \cup {Some(w) : w \in (-1)..MaxWidth}

InitWrap ==
    \E mw \in Widths, text \in {None} \cup {Some(t) : t \in Texts} :
        /\ app = CSV2TXT(1, mw, None, MIDDLE, CENTER)
        /\ op = "wrap_cell"
        /\ pc = "call"
        /\ input = [text |-> text]
        /\ output = NoCall

WrapCell ==
    /\ op = "wrap_cell"
    /\ pc = "call"
    /\ output' = wrap_cell(app, input.text)
    /\ pc' = "done"
    /\ UNCHANGED <<app, op, input>>

SpecWrap == InitWrap /\ [][WrapCell]_vars

(***************************************************************************)
(* CSV2TXT(...).generate(input, title).  The input lines are the records   *)
(* of the tables of at most MaxRows rows and MaxCells cells.               *)
(***************************************************************************)
GenCells == {<<"a">>, <<"b", "b", BSL, "n", "c", SP, "d", SP, "e">>}

RECURSIVE SeqsUpTo(_, _)
SeqsUpTo(S, n) ==
    IF n = 0 THEN {<<>>}
    ELSE LET shorter == SeqsUpTo(S, n - 1)
         IN shorter \cup {Append(q, x) : q \in {t \in shorter : Len(t) = n - 1}, x \in S}

RECURSIVE TablesOf(_, _)
TablesOf(nrows, ncells) ==
    IF nrows = 0 THEN {<<>>}
    ELSE {<<>>} \cup UNION {{<<row>> \o t : t \in TablesOf(nrows - 1, ncells - Len(row))} :
                              row \in SeqsUpTo(GenCells, ncells)}

Tables == TablesOf(MaxRows, MaxCells)

Records(table) == [r \in DOMAIN table |-> JoinWith(<<separator>>, table[r])]

AlignLists == {None, Some(<<CENTER, RIGHT>>)}

Titles == {Some(Rep("t", n)) : n \in 0..MaxTitle}

InitGen ==
    /\ op = "generate"
    /\ pc = "call"
    /\ output = NoCall
    /\ \/ \E rows \in Tables, sp \in {-1, 0, MaxSpacing}, mw \in {None, Some(GenWidth)},
             al \in AlignLists, va \in VAlign :
                /\ app = CSV2TXT(sp, mw, al, va, CENTER)
                /\ input = [lines |-> Records(rows), title |-> None]
       \/ \E rows \in TablesOf(1, MaxCells), sp \in {0, MaxSpacing},
             ta \in Align, title \in Titles :
                /\ app = CSV2TXT(sp, None, None, MIDDLE, ta)
                /\ input = [lines |-> Records(rows), title |-> title]

Generate ==
    /\ op = "generate"
    /\ pc = "call"
    /\ output' = generate(app, input.lines, input.title)
    /\ pc' = "done"
    /\ UNCHANGED <<app, op, input>>

SpecGen == InitGen /\ [][Generate]_vars

(***************************************************************************)
(* CSV2TXT().align_text(text, width, align)                                *)
(***************************************************************************)
AlignChars == {"a", SP}

RECURSIVE AlignTextsOfLen(_)
AlignTextsOfLen(n) ==
    IF n = 0 THEN {<<>>}
    ELSE {Append(t, c) : t \in AlignTextsOfLen(n - 1), c \in AlignChars}

AlignTexts == UNION {AlignTextsOfLen(n) : n \in 0..MaxLen}

InitAlign ==
    \E text \in AlignTexts, width \in 0..(MaxLen + MaxWidth), align \in Align \cup {Str("center")} :
        /\ app = Default
        /\ op = "align_text"
        /\ pc = "call"
        /\ input = [text |-> text, width |-> width, align |-> align]
        /\ output = NoCall

AlignText ==
    /\ op = "align_text"
    /\ pc = "call"
    /\ output' = Return(align_text(input.text, input.width, input.align))
    /\ pc' = "done"
    /\ UNCHANGED <<app, op, input>>

SpecAlign == InitAlign /\ [][AlignText]_vars

(***************************************************************************)
(* main(): the command line.  argparse stores the text of -t and -v as     *)
(* given (the options declare neither type nor choices) and the defaults   *)
(* are Enum members; the -a tokens are converted by Align(token).          *)
(***************************************************************************)
AlignOf(token) ==
    IF Enum("Align", token) \in Align THEN Return(Enum("Align", token))
    ELSE Raise("ValueError")

dispatched(self, lines, title) ==
    LET rows == get_rows(lines)
        titled == title # None /\ Val(title) # <<>>
        cols == count_cols(rows)
    IN IF rows = <<>> THEN {}
       ELSE (IF titled THEN {self.title_align} ELSE {})
            \cup (IF (titled /\ self.title_align \notin Align) \/ cols = 0 THEN {}
                  ELSE {self.valign}
                       \cup {IF self.align # None /\ c < Len(Val(self.align))
                             THEN Val(self.align)[c + 1] ELSE LEFT : c \in 0..(cols - 1)})

main(args) ==
    LET tokens == IF args.align = None THEN <<>> ELSE Val(args.align)
        converted == [i \in DOMAIN tokens |-> AlignOf(tokens[i])]
    IN IF \E i \in DOMAIN tokens : converted[i].exc # "none"
       THEN [exc |-> "ValueError", ret |-> <<>>, app |-> None, reached |-> {}]
       ELSE LET align == IF tokens = <<>> THEN None
                         ELSE Some([i \in DOMAIN tokens |-> converted[i].ret])
                new == CSV2TXT(args.space, args.width, align, args.valign, args.talign)
                result == generate(new, args.file, args.name)
            IN [exc |-> result.exc, ret |-> result.ret, app |-> Some(new),
                reached |-> dispatched(new, args.file, args.name)]

AlignTokens == {"left", "right", "center", "middle"}

VAlignTokens == {"top", "middle", "bottom", "left"}

TokenLists == {None} \cup {Some(<<t>>) : t \in AlignTokens}
              \cup {Some(<<t, u>>) : t \in AlignTokens, u \in AlignTokens}

Files == {<<>>, Records(<<<<<<"a">>, <<"b", BSL, "n", "c">>>>>>)}

InitMain ==
    \E al \in TokenLists, ta \in {CENTER} \cup {Str(t) : t \in AlignTokens},
       va \in {MIDDLE} \cup {Str(t) : t \in VAlignTokens},
       name \in {None, Some(<<"t">>)}, file \in Files :
        /\ app = Default
        /\ op = "main"
        /\ pc = "call"
        /\ input = [align |-> al, talign |-> ta, valign |-> va, name |-> name,
                    space |-> 1, width |-> None, file |-> file]
        /\ output = NoCall

Main ==
    /\ op = "main"
    /\ pc = "call"
    /\ output' = main(input)
    /\ app' = IF output'.app = None THEN app ELSE Val(output'.app)
    /\ pc' = "done"
    /\ UNCHANGED <<op, input>>

SpecMain == InitMain /\ [][Main]_vars

(***************************************************************************)
(* What the properties speak of, read off the call and its result.         *)
(***************************************************************************)
\* str.split(sep): the pieces of s between the occurrences of sep.
SplitOn(s, sep) ==
    LET cuts == {0, Len(s) + 1} \cup {i \in DOMAIN s : s[i] = sep}
        cut(k) == CHOOSE i \in cuts : Cardinality({j \in cuts : j < i}) = k
    IN [k \in 1..(Cardinality(cuts) - 1) |-> SubSeq(s, cut(k - 1) + 1, cut(k) - 1)]

SetMax(S) == CHOOSE m \in S : \A x \in S : x <= m

Rendered == op = "generate" /\ pc = "done" /\ output.exc = "none" /\ input.lines # <<>>

Titled == input.title # None /\ Val(input.title) # <<>>

HeaderLines == IF Titled THEN 3 ELSE 1

\* The wrapped lines of every cell of the rectangular grid: a missing cell is one
\* empty line.
Grid ==
    LET rows == get_rows(input.lines)
        ncols == SetMax({Len(rows[r]) : r \in DOMAIN rows})
    IN [r \in DOMAIN rows |->
           [c \in 1..ncols |->
               IF c <= Len(rows[r]) THEN wrap_cell(app, Some(rows[r][c])).ret
               ELSE <<<<>>>>]]

NumColumns(g) == Len(g[1])

\* contentWidth[c]: the longest wrapped line of column c.
ContentWidths(g) ==
    [c \in 1..NumColumns(g) |->
        SetMax(UNION {{Len(g[r][c][l]) : l \in DOMAIN g[r][c]} : r \in DOMAIN g})]

\* totalWidth: the spaced widths and one glyph per inner column boundary.
TotalWidth(ws) ==
    SumSeq([c \in DOMAIN ws |-> ws[c] + 2 * app.spacing]) + (Len(ws) - 1)

\* rowHeight: the most wrapped lines of a cell of the row.
RowHeights(g) ==
    [r \in DOMAIN g |-> SetMax({Len(g[r][c]) : c \in DOMAIN g[r]})]

OutLines == SplitOn(output.ret, LF)

ExpectedLineCount(hs) ==
    HeaderLines + SumSeq([r \in DOMAIN hs |-> hs[r] + 1])

\* The index in OutLines of the k-th rendered line of row r.
LineIndex(hs, r, k) ==
    HeaderLines + SumSeq([q \in 1..(r - 1) |-> hs[q] + 1]) + k

\* For each row and each of its rendered lines, the texts between the vertical
\* glyphs (the first and the last are what is outside the outer glyphs).
Fields(hs, ls) ==
    [r \in DOMAIN hs |->
        [k \in 1..hs[r] |-> SplitOn(ls[LineIndex(hs, r, k)], V)]]

\* The content of a field between its spacing blanks.
Content(field) == SubSeq(field, app.spacing + 1, Len(field) - app.spacing)

(***************************************************************************)
(* Properties of generate.  What a property reads off the state (the grid, *)
(* the output's lines, the widths, the heights) is bound once, as the only *)
(* element of a singleton.                                                 *)
(***************************************************************************)
\* C1: in every rendered body line, between the vertical glyphs, column c holds
\* spacing blanks, a content of length exactly the column's content width (the
\* longest wrapped line of the column), and spacing blanks.
C1_WidthInvariant ==
    Rendered =>
        \A grid \in {Grid} : \A lines \in {OutLines} :
        \A widths \in {ContentWidths(grid)} : \A heights \in {RowHeights(grid)} :
           /\ Len(lines) = ExpectedLineCount(heights)
           /\ \A fields \in {Fields(heights, lines)} :
                 \A r \in DOMAIN grid : \A k \in 1..heights[r] :
                    /\ Len(fields[r][k]) = NumColumns(grid) + 2
                    /\ fields[r][k][1] = <<>>
                    /\ fields[r][k][NumColumns(grid) + 2] = <<>>
                    /\ \A c \in 1..NumColumns(grid) : \A field \in {fields[r][k][c + 1]} :
                           /\ Len(field) = widths[c] + 2 * app.spacing
                           /\ SubSeq(field, 1, app.spacing) = Rep(SP, app.spacing)
                           /\ SubSeq(field, Len(field) - app.spacing + 1, Len(field))
                                  = Rep(SP, app.spacing)
                           /\ Len(Content(field)) = widths[c]

C1_Witness ==
    /\ Rendered
    /\ app.max_width # None
    /\ app.align # None
    /\ app.spacing > 0
    /\ LET grid == Grid
           widths == ContentWidths(grid)
       IN /\ NumColumns(grid) >= 2
          /\ Len(grid) >= 2
          /\ \E r \in DOMAIN grid : \E c \in 1..NumColumns(grid) : \E l \in DOMAIN grid[r][c] :
                /\ grid[r][c][l] # <<>>
                /\ Len(grid[r][c][l]) < widths[c]

\* C2: the top, middle and bottom separator lines of a render all have length
\* totalWidth + 2, totalWidth being the sum of the spaced widths plus one per
\* inner column boundary.
C2_BorderSymmetry ==
    Rendered =>
        \A grid \in {Grid} : \A lines \in {OutLines} :
        \A total \in {TotalWidth(ContentWidths(grid))} : \A heights \in {RowHeights(grid)} :
           /\ Len(lines) = ExpectedLineCount(heights)
           /\ ~Titled => (lines[1][1] = TL /\ Len(lines[1]) = total + 2)
           /\ \A r \in 1..(Len(grid) - 1) :
                \A middle \in {lines[LineIndex(heights, r, heights[r]) + 1]} :
                    middle[1] = ML /\ Len(middle) = total + 2
           /\ \A bottom \in {lines[Len(lines)]} :
                    bottom[1] = BL /\ Len(bottom) = total + 2

C2_Witness ==
    /\ Rendered
    /\ ~Titled
    /\ app.spacing > 0
    /\ LET grid == Grid
       IN /\ Len(grid) >= 2
          /\ NumColumns(grid) >= 2
          /\ TotalWidth(ContentWidths(grid)) > 2 * NumColumns(grid)
          /\ Len(OutLines[1]) = TotalWidth(ContentWidths(grid)) + 2

\* C3: generate raises no exception, whatever the rows (ragged rows and rows of
\* zero cells included), and every rendered line has as many columns as the
\* longest row.
C3_NoException ==
    (op = "generate" /\ pc = "done") =>
        /\ output.exc = "none"
        /\ Rendered =>
            LET grid == Grid
                heights == RowHeights(grid)
                lines == OutLines
            IN /\ Len(lines) = ExpectedLineCount(heights)
               /\ \A r \in DOMAIN grid : \A k \in 1..heights[r] :
                    Len(Fields(heights, lines)[r][k]) = NumColumns(grid) + 2

\* C7: with a title, the title line has length totalWidth + 2, as have the
\* border above it, the separator below it and every other line of the table.
C7_TitleLineWidth ==
    (Rendered /\ Titled) =>
        LET total == TotalWidth(ContentWidths(Grid))
            lines == OutLines
        IN \A i \in DOMAIN lines : Len(lines[i]) = total + 2

\* C10: each cell is padded to the height of its row: top puts the delta empty
\* lines after the cell's lines, bottom before them, middle puts delta \div 2
\* before and the rest after; the row's k-th rendered line shows, in column c,
\* the k-th line of the padded cell, aligned to the column.
ExpectedPadded(cell, height) ==
    LET delta == height - Len(cell)
    IN CASE app.valign = TOP -> cell \o Rep(<<>>, delta)
         [] app.valign = BOTTOM -> Rep(<<>>, delta) \o cell
         [] app.valign = MIDDLE ->
                Rep(<<>>, delta \div 2) \o cell \o Rep(<<>>, delta - (delta \div 2))

C10_VerticalPadding ==
    Rendered =>
        \A grid \in {Grid} : \A lines \in {OutLines} :
        \A widths \in {ContentWidths(grid)} : \A heights \in {RowHeights(grid)} :
           /\ Len(lines) = ExpectedLineCount(heights)
           /\ \A fields \in {Fields(heights, lines)} :
                 \A r \in DOMAIN grid : \A c \in 1..NumColumns(grid) :
                    \A padded \in {ExpectedPadded(grid[r][c], heights[r])} :
                       /\ Len(padded) = heights[r]
                       /\ \A k \in 1..heights[r] :
                            /\ Len(fields[r][k]) = NumColumns(grid) + 2
                            /\ Some(Content(fields[r][k][c + 1]))
                                   = align_cell(app, padded[k], widths[c], c - 1)

C10_Witness ==
    /\ Rendered
    /\ app.valign = MIDDLE
    /\ LET grid == Grid
           heights == RowHeights(grid)
           fields == Fields(heights, OutLines)
       IN \E r \in DOMAIN grid : \E c \in 1..NumColumns(grid) :
            /\ grid[r][c] # <<<<>>>>
            /\ (heights[r] - Len(grid[r][c])) % 2 = 1
            /\ heights[r] - Len(grid[r][c]) > 1
            /\ Content(fields[r][1][c + 1]) = Rep(SP, ContentWidths(grid)[c])
            /\ Content(fields[r][2][c + 1]) # Rep(SP, ContentWidths(grid)[c])

(***************************************************************************)
(* Properties of align_text.                                               *)
(***************************************************************************)
Aligned == op = "align_text" /\ pc = "done"

OddPadCenter ==
    /\ Aligned
    /\ input.align = CENTER
    /\ input.width > Len(input.text)
    /\ (input.width - Len(input.text)) % 2 = 1

\* C4 as stated: when the padding is odd, center alignment puts pad \div 2 blanks
\* on the left and the rest on the right, whatever the parity of the width.
C4_ExtraOnRight ==
    OddPadCenter =>
        LET pad == input.width - Len(input.text)
        IN output.ret = Some(Rep(SP, pad \div 2) \o input.text \o Rep(SP, pad - (pad \div 2)))

\* C4, amended: when the padding is odd, the extra blank is on the right if the
\* width is even and on the left if the width is odd.
C4_ExtraByWidthParity ==
    OddPadCenter =>
        LET pad == input.width - Len(input.text)
            small == pad \div 2
            left == IF input.width % 2 = 0 THEN small ELSE small + 1
        IN output.ret = Some(Rep(SP, left) \o input.text \o Rep(SP, pad - left))

C4_Witness ==
    /\ OddPadCenter
    /\ input.width % 2 = 1
    /\ input.width - Len(input.text) >= 3
    /\ input.text # <<>>
    /\ input.text[1] # SP
    /\ LET small == (input.width - Len(input.text)) \div 2
       IN /\ Val(output.ret)[small + 1] = SP
          /\ Val(output.ret)[small + 2] = input.text[1]

(***************************************************************************)
(* Properties of wrap_cell.                                                *)
(***************************************************************************)
Wrapped == op = "wrap_cell" /\ pc = "done"

\* C5: with max_width set and > 0, the result has at least one line for every
\* line of the escaped text split on line breaks.
C5_BlankLinesSurvive ==
    (Wrapped /\ input.text # None /\ app.max_width # None /\ Val(app.max_width) > 0) =>
        /\ output.exc = "none"
        /\ Len(output.ret) >= Len(splitlines(escape(Val(input.text))))

\* C6: a max_width of zero or less gives what an absent max_width gives, the
\* escaped text split on line breaks, without error.
C6_NonPositiveIsNoWrap ==
    (Wrapped /\ input.text # None /\ app.max_width # None /\ Val(app.max_width) <= 0) =>
        LET split == splitlines(escape(Val(input.text)))
        IN output = Return(IF split = <<>> THEN <<<<>>>> ELSE split)

Plain(text) == \A i \in DOMAIN text : text[i] \notin {BSL, separator, LF}

NoOpCase ==
    /\ Wrapped
    /\ input.text # None
    /\ Plain(Val(input.text))
    /\ app.max_width # None
    /\ Len(Val(input.text)) <= Val(app.max_width)

\* C8 as stated: a text without escapes, separators and line breaks that is no
\* longer than max_width wraps to the one-element sequence holding the text.
C8_NoOpWrap == NoOpCase => output = Return(<<Val(input.text)>>)

RStrip(text) ==
    LET last == SetMax({0} \cup {i \in DOMAIN text : text[i] # SP})
    IN SubSeq(text, 1, last)

\* C8, amended: such a text wraps to the one-element sequence holding the text
\* without its trailing blanks (the text itself, when it does not end in a blank).
C8_NoOpWrapUpToTrailingBlanks == NoOpCase => output = Return(<<RStrip(Val(input.text))>>)

C8_Witness ==
    /\ NoOpCase
    /\ Len(Val(input.text)) >= 3
    /\ Val(input.text)[1] = SP
    /\ Val(input.text)[2] # SP
    /\ Val(input.text)[Len(Val(input.text))] = SP
    /\ output.ret = <<RStrip(Val(input.text))>>
    /\ output.ret # <<Val(input.text)>>

(***************************************************************************)
(* Properties of main.                                                     *)
(***************************************************************************)
Malformed(args) ==
    \/ args.align # None /\ \E i \in DOMAIN Val(args.align) :
            Val(args.align)[i] \notin {"left", "right", "center"}
    \/ args.talign \notin Align /\ args.talign.value \notin {"left", "right", "center"}
    \/ args.valign \notin VAlign /\ args.valign.value \notin {"top", "middle", "bottom"}

\* C9: a command line with a malformed alignment token fails before anything is
\* rendered, and every alignment value that reaches align_text or the vertical
\* dispatch is a member of its Enum.
C9_AlignmentValidated ==
    (op = "main" /\ pc = "done") =>
        /\ Malformed(input) => (output.exc # "none" /\ output.app = None)
        /\ output.reached \subseteq (Align \cup VAlign)

====
